---- MODULE Spec2Model ----
(***************************************************************************)
(* A model of the audio UI of the repository:                              *)
(*   - AudioProvider / useAudio / useAudioPlayer (contexts/AudioContext)   *)
(*   - MusicGenerationPanel and SoundEffectsPanel (components/audio), as   *)
(*     mounted by the tabs of TimelineSidebarContainer                     *)
(* React state is modelled as two copies: `state`, the value the queued    *)
(* setState updaters have produced, and `rendered`, the fields of it that  *)
(* the useCallback closures captured at the last render.  Volumes are      *)
(* counted in tenths (0.7 is 7, 1 is 10); times are whole seconds.         *)
(***************************************************************************)
EXTENDS Integers, Sequences, FiniteSets, TLC

VARIABLES
    state,          \* AudioProvider: useState<AudioState>, after the queued updaters
    rendered,       \* AudioProvider: the state fields the callbacks captured at the last render
    audio,          \* AudioProvider: audioRef.current, the media element
    events,         \* media element: events queued for the listeners, oldest first
    playPending,    \* media element: some play() promise is not yet settled
    calls,          \* the element and console methods the last handler called, in order
    lastOp,         \* the last operation, listener or promise callback that ran
    hookContext,    \* useAudio: the context value the hook finds
    hookResult,     \* useAudio: what the hook did with it
    activeTab,      \* TimelineSidebarContainer: the selected tab, whose panel is mounted
    now,            \* Date.now(), in milliseconds
    music,          \* MusicGenerationPanel: its useState values
    musicAudio,     \* MusicGenerationPanel: audioRef.current, its own <audio> element
    sfx,            \* SoundEffectsPanel: its useState values
    sfxAudio,       \* SoundEffectsPanel: audioRef.current, its own <audio> element
    props,          \* TimelineSidebarContainer: the sessionId and projectId it passes down
    voice,          \* VoiceControlPanel: its useState values
    voiceAudio,     \* VoiceControlPanel: audioRef.current, its own <audio> element
    lastPanelOp     \* the last panel handler that ran

providerVars == <<state, rendered, audio, events, playPending, calls, lastOp>>
hookVars == <<hookContext, hookResult>>
musicVars == <<music, musicAudio>>
sfxVars == <<sfx, sfxAudio>>
voiceVars == <<voice, voiceAudio>>
panelVars == <<activeTab, now, props, musicVars, sfxVars, voiceVars, lastPanelOp>>
vars == <<providerVars, hookVars, panelVars>>

----------------------------------------------------------------------------
(* Bounds of the model *)

MaxEvents == 2
MaxItems == 2
MaxClock == 1
MaxFormat == 200

(* Program constants *)

InitialVolume == 7
FullVolume == 10

Null == "null"
Undefined == "undefined"
NoSrc == ""
Ids == {"a", "b"}
Urls == {"u1", "u2"}
\* the tracks played: two tracks with sources of their own, and the second
\* track again with the source of the first
Tracks == {<<"a", "u1">>, <<"b", "u2">>, <<"b", "u1">>}
Times == {0, 1}
VolumeInputs == {-5, 7, 15}

Max(x, y) == IF x >= y THEN x ELSE y
Min(x, y) == IF x <= y THEN x ELSE y

----------------------------------------------------------------------------
(* The media element (HTMLAudioElement) as the provider uses it *)

\* new Audio(): no source, paused, full volume, duration unknown (NaN, written 0)
NewAudio == [src |-> NoSrc, volume |-> FullVolume, currentTime |-> 0,
             duration |-> 0, paused |-> TRUE]

\* The element together with its task queue and its unsettled play() promises
World == [audio |-> audio, events |-> events, plays |-> playPending]

\* audio.src = url
ElemSetSrc(w, url) == [w EXCEPT !.audio.src = url]

\* audio.load(): the element is reset and the tasks queued for it are dropped
ElemLoad(w) ==
    [w EXCEPT !.audio.paused = TRUE, !.audio.currentTime = 0,
              !.audio.duration = 0, !.events = <<>>]

\* audio.play(): returns a promise; when playback is allowed the element leaves
\* the paused state (rewinding if it had ended) and a 'play' event is queued
ElemPlay(w, allowed) ==
    IF allowed
    THEN [w EXCEPT !.audio.paused = FALSE,
                   !.audio.currentTime =
                       IF w.audio.duration > 0 /\ @ >= w.audio.duration THEN 0 ELSE @,
                   !.events = IF w.audio.paused THEN Append(@, "play") ELSE @,
                   !.plays = TRUE]
    ELSE [w EXCEPT !.plays = TRUE]

\* audio.pause(): a playing element becomes paused and a 'pause' event is queued
ElemPause(w) ==
    IF w.audio.paused THEN w
    ELSE [w EXCEPT !.audio.paused = TRUE, !.events = Append(@, "pause")]

\* audio.currentTime = time: a seek, limited to the known duration
ElemSeek(w, time) ==
    [w EXCEPT !.audio.currentTime =
         IF w.audio.duration > 0 THEN Min(time, w.audio.duration) ELSE time]

\* audio.volume = volume
ElemSetVolume(w, volume) == [w EXCEPT !.audio.volume = volume]

----------------------------------------------------------------------------
(* AudioProvider *)

InitialState == [currentlyPlayingId |-> Null, currentlyPlayingUrl |-> Null,
                 isPlaying |-> FALSE, currentTime |-> 0, duration |-> 0,
                 volume |-> InitialVolume]

\* a faulty mount that leaves the element at the volume it is created with
MountAudioDefault(s) == NewAudio

\* the mount effect: audioRef.current = new Audio(); its volume = state.volume
MountAudio(s) == [NewAudio EXCEPT !.volume = s.volume]

\* audioRef.current before the mount effect, and the guard `if (!audio) return`
NoAudio == [ref |-> Null]
HasAudio == audio # NoAudio

\* what the useCallback closures read of the state they were created in
\* (their dependency lists: currentlyPlayingUrl, currentlyPlayingId, isPlaying)
Captured(s) == [currentlyPlayingId |-> s.currentlyPlayingId,
                currentlyPlayingUrl |-> s.currentlyPlayingUrl,
                isPlaying |-> s.isPlaying]

\* one operation of the context value: its element calls cs, made on the way
\* to w, and one setState whose updater gave s
Handled(s, w, cs, op) ==
    /\ Len(w.events) <= MaxEvents
    /\ state' = s
    /\ audio' = w.audio
    /\ events' = w.events
    /\ playPending' = w.plays
    /\ calls' = cs
    /\ lastOp' = op
    /\ UNCHANGED <<rendered, hookVars, panelVars>>

\* one listener run: one setState whose updater gave s, no element call
Listened(s) ==
    /\ state' = s
    /\ UNCHANGED <<rendered, audio, playPending, calls, lastOp, hookVars, panelVars>>

\* the updaters the listeners pass to setState
handleTimeUpdate(prev, a) == [prev EXCEPT !.currentTime = a.currentTime]
handleDurationChange(prev, a) == [prev EXCEPT !.duration = a.duration]
handleEnded(prev) ==
    [prev EXCEPT !.isPlaying = FALSE, !.currentTime = 0,
                 !.currentlyPlayingId = Null, !.currentlyPlayingUrl = Null]
handlePlay(prev) == [prev EXCEPT !.isPlaying = TRUE]
handlePause(prev) == [prev EXCEPT !.isPlaying = FALSE]

\* a faulty playAudio that never replaces the source
playAudioNoReload(url) == <<"play">>

\* playAudio: the element calls, a new source only if the captured url differs
playAudioCalls(url) ==
    IF rendered.currentlyPlayingUrl # url THEN <<"src", "load", "play">>
    ELSE <<"play">>

RECURSIVE ElemRun(_, _, _, _)
\* the element after the calls cs, made in order
ElemRun(w, cs, url, allowed) ==
    IF cs = <<>> THEN w
    ELSE ElemRun(CASE Head(cs) = "src" -> ElemSetSrc(w, url)
                   [] Head(cs) = "load" -> ElemLoad(w)
                   [] Head(cs) = "play" -> ElemPlay(w, allowed)
                   [] Head(cs) = "pause" -> ElemPause(w)
                   [] OTHER -> w,
                 Tail(cs), url, allowed)

\* a faulty updater that forgets the url
playAudioStateKeepsUrl(prev, id, url) ==
    [prev EXCEPT !.currentlyPlayingId = id, !.isPlaying = TRUE]

\* a faulty updater that starts the new track at position 0
playAudioStateResetsTime(prev, id, url) ==
    [prev EXCEPT !.currentlyPlayingId = id, !.currentlyPlayingUrl = url,
                 !.isPlaying = TRUE, !.currentTime = 0]

\* playAudio: the updater
playAudioState(prev, id, url) ==
    [prev EXCEPT !.currentlyPlayingId = id, !.currentlyPlayingUrl = url,
                 !.isPlaying = TRUE]

playAudioAs(name, id, url) ==
    /\ HasAudio
    /\ \E allowed \in BOOLEAN :
          Handled(playAudioState(state, id, url),
                  ElemRun(World, playAudioCalls(url), url, allowed),
                  playAudioCalls(url), name)

playAudio(id, url) == playAudioAs("playAudio", id, url)

\* a faulty pauseAudio updater that forgets the position
pauseAudioStateRewinds(prev) == [prev EXCEPT !.isPlaying = FALSE, !.currentTime = 0]

\* pauseAudio: the updater
pauseAudioState(prev) == [prev EXCEPT !.isPlaying = FALSE]

pauseAudioAs(name) ==
    /\ HasAudio
    /\ Handled(pauseAudioState(state), ElemPause(World), <<"pause">>, name)

pauseAudio == pauseAudioAs("pauseAudio")

\* a faulty stopAudio updater that forgets the duration as well
stopAudioStateClearsDuration(prev) ==
    [prev EXCEPT !.isPlaying = FALSE, !.currentTime = 0, !.duration = 0,
                 !.currentlyPlayingId = Null, !.currentlyPlayingUrl = Null]

\* stopAudio: the updater
stopAudioState(prev) ==
    [prev EXCEPT !.isPlaying = FALSE, !.currentTime = 0,
                 !.currentlyPlayingId = Null, !.currentlyPlayingUrl = Null]

stopAudio ==
    /\ HasAudio
    /\ Handled(stopAudioState(state), ElemSeek(ElemPause(World), 0),
               <<"pause", "currentTime">>, "stopAudio")

\* a faulty toggle that pauses the active track even when it is paused
toggleOnIdOnly(id) == rendered.currentlyPlayingId = id

\* togglePlayPause: the branch taken, decided on the captured state
toggleShouldPause(id) == rendered.currentlyPlayingId = id /\ rendered.isPlaying

togglePlayPauseAs(name, id, url) ==
    IF toggleShouldPause(id)
    THEN pauseAudioAs(name)
    ELSE playAudioAs(name, id, url)

togglePlayPause(id, url) == togglePlayPauseAs("togglePlayPause", id, url)

seekToState(prev, time) == [prev EXCEPT !.currentTime = time]

seekTo(time) ==
    /\ HasAudio
    /\ Handled(seekToState(state, time), ElemSeek(World, time),
               <<"currentTime">>, "seekTo")

\* a faulty setVolume that stores its input as it is
unclampedVolume(volume) == volume

\* setVolume: Math.max(0, Math.min(1, volume))
clampedVolume(volume) == Max(0, Min(FullVolume, volume))

setVolumeState(prev, volume) == [prev EXCEPT !.volume = clampedVolume(volume)]

setVolume(volume) ==
    /\ HasAudio
    /\ Handled(setVolumeState(state, volume),
               ElemSetVolume(World, clampedVolume(volume)),
               <<"volume">>, "setVolume")

\* a faulty isCurrentlyPlaying that ignores isPlaying
isActiveOnly(s, id) == s.currentlyPlayingId = id

\* a faulty isCurrentlyPlaying that ignores the id
isPlayingAnyId(s, id) == s.isPlaying

\* isCurrentlyPlaying as created over the state s
isCurrentlyPlayingOf(s, id) == s.currentlyPlayingId = id /\ s.isPlaying

\* the isCurrentlyPlaying of the context value: created at the last render
isCurrentlyPlaying(id) == isCurrentlyPlayingOf(rendered, id)

\* a render of the provider: the callbacks are re-created over the current state
Render ==
    /\ rendered # Captured(state)
    /\ rendered' = Captured(state)
    /\ UNCHANGED <<state, audio, events, playPending, calls, lastOp, hookVars,
                   panelVars>>

----------------------------------------------------------------------------
(* The media element's events and promises *)

\* the listeners of the queued events
Listener(e, prev) ==
    CASE e = "ended" -> handleEnded(prev)
      [] e = "play" -> handlePlay(prev)
      [] e = "pause" -> handlePause(prev)

\* the oldest queued 'play', 'pause' or 'ended' event is dispatched
MediaEvent ==
    /\ HasAudio
    /\ events # <<>>
    /\ events' = Tail(events)
    /\ Listened(Listener(Head(events), state))

\* a 'timeupdate' event is dispatched: the listener reads the element's position
TimeUpdateEvent ==
    /\ HasAudio
    /\ audio.src # NoSrc
    /\ state.currentTime # audio.currentTime
    /\ Listened(handleTimeUpdate(state, audio))
    /\ UNCHANGED events

\* a 'durationchange' event is dispatched: the listener reads the element's duration
DurationChangeEvent ==
    /\ HasAudio
    /\ audio.src # NoSrc
    /\ state.duration # audio.duration
    /\ Listened(handleDurationChange(state, audio))
    /\ UNCHANGED events

\* a faulty catch that logs and rethrows
playCatchRethrow == <<"console.error", "throw">>

\* the catch of playAudio: one console message, nothing rethrown
playCatch == <<"console.error">>

\* a play() promise is rejected and the catch runs
PlayRejected ==
    /\ playPending
    /\ playPending' = FALSE
    /\ calls' = playCatch
    /\ lastOp' = "playRejected"
    /\ UNCHANGED <<state, rendered, audio, events, hookVars, panelVars>>

\* a play() promise is fulfilled: no callback is attached
PlayResolved ==
    /\ playPending
    /\ playPending' = FALSE
    /\ UNCHANGED <<state, rendered, audio, events, calls, lastOp, hookVars,
                   panelVars>>

\* playback: the position advances while the element plays
MediaProgress ==
    /\ HasAudio
    /\ audio.src # NoSrc
    /\ ~audio.paused
    /\ audio.currentTime < audio.duration
    /\ audio' = [audio EXCEPT !.currentTime = @ + 1]
    /\ UNCHANGED <<state, rendered, events, playPending, calls, lastOp, hookVars,
                   panelVars>>

\* the duration of the source becomes known (or unknown again)
MediaDuration ==
    /\ HasAudio
    /\ audio.src # NoSrc
    /\ \E d \in Times :
          /\ d # audio.duration
          /\ audio' = [audio EXCEPT !.duration = d,
                                    !.currentTime = IF d > 0 THEN Min(@, d) ELSE @]
    /\ UNCHANGED <<state, rendered, events, playPending, calls, lastOp, hookVars,
                   panelVars>>

\* playback reaches the end: the element pauses, 'pause' and 'ended' are queued
MediaEnded ==
    /\ HasAudio
    /\ audio.src # NoSrc
    /\ ~audio.paused
    /\ audio.duration > 0
    /\ audio.currentTime = audio.duration
    /\ Len(events) + 2 <= MaxEvents
    /\ audio' = [audio EXCEPT !.paused = TRUE]
    /\ events' = events \o <<"pause", "ended">>
    /\ UNCHANGED <<state, rendered, playPending, calls, lastOp, hookVars,
                   panelVars>>

----------------------------------------------------------------------------
(* useAudio *)

\* createContext<AudioContextValue | null>(null)
NoContext == [context |-> Null]

\* the value the provider passes down: the state (and the callbacks)
ContextValue(s) == s

UseAudioError == "useAudio must be used within an AudioProvider"

\* a faulty useAudio that returns whatever it finds
useAudioUnchecked(context) == [threw |-> FALSE, error |-> Null, value |-> context]

\* useAudio: throws without a provider, else returns the context value
useAudio(context) ==
    IF context = NoContext
    THEN [threw |-> TRUE, error |-> UseAudioError, value |-> NoContext]
    ELSE [threw |-> FALSE, error |-> Null, value |-> context]

\* a faulty player that reports the shared position whether active or not
playerSharedTime(value, id) == value.currentTime

\* useAudioPlayer(id, url): the values it derives from the context value
playerIsPlaying(value, id) == isCurrentlyPlayingOf(value, id)
playerIsActive(value, id) == value.currentlyPlayingId = id
playerCurrentTime(value, id) == IF playerIsActive(value, id) THEN value.currentTime ELSE 0
playerDuration(value, id) == IF playerIsActive(value, id) THEN value.duration ELSE 0

\* useAudioPlayer: fails where useAudio fails, else returns the derived values
useAudioPlayer(id, context) ==
    LET found == useAudio(context)
    IN IF found.threw THEN found
       ELSE [threw |-> FALSE, error |-> Null,
             value |-> [isPlaying |-> playerIsPlaying(found.value, id),
                        isActive |-> playerIsActive(found.value, id),
                        currentTime |-> playerCurrentTime(found.value, id),
                        duration |-> playerDuration(found.value, id)]]

\* a callback of useAudioPlayer that returns without calling the context
playerSkipped(name) ==
    /\ calls' = <<>>
    /\ lastOp' = name
    /\ UNCHANGED <<state, rendered, audio, events, playPending, hookVars, panelVars>>

\* useAudioPlayer(id, url).play: if (url) audio.playAudio(id, url)
playerPlay(id, url) ==
    IF url # Undefined THEN playAudioAs("player.play", id, url)
    ELSE playerSkipped("player.play")

\* a faulty pause that leaves the playback of other tracks alone
playerPauseSkipped == playerSkipped("player.pause")

\* useAudioPlayer(id, url).pause: audio.pauseAudio()
playerPause == pauseAudioAs("player.pause")

\* useAudioPlayer(id, url).toggle: if (url) audio.togglePlayPause(id, url)
playerToggle(id, url) ==
    IF url # Undefined THEN togglePlayPauseAs("player.toggle", id, url)
    ELSE playerSkipped("player.toggle")

HookNotRun == [hook |-> "none"]

\* a component calls useAudio() during its render
RunUseAudio ==
    /\ hookResult = HookNotRun
    /\ hookResult' = [hook |-> "useAudio", id |-> Null,
                      result |-> useAudio(hookContext)]
    /\ UNCHANGED <<providerVars, hookContext, panelVars>>

\* a component calls useAudioPlayer(id, url) during its render
RunUseAudioPlayer(id) ==
    /\ hookResult = HookNotRun
    /\ hookResult' = [hook |-> "useAudioPlayer", id |-> id,
                      result |-> useAudioPlayer(id, hookContext)]
    /\ UNCHANGED <<providerVars, hookContext, panelVars>>

\* the context values a hook can find
PlayingIds == Ids \cup {Null}
PlayingUrls == Urls \cup {Null}
Volumes == {0, InitialVolume, FullVolume}
AudioStates == [currentlyPlayingId : PlayingIds, currentlyPlayingUrl : PlayingUrls,
                isPlaying : BOOLEAN, currentTime : Times, duration : Times,
                volume : Volumes]
Contexts == {NoContext} \cup {ContextValue(s) : s \in AudioStates}

----------------------------------------------------------------------------
(* Text inputs: a string is the sequence of its characters *)

RECURSIVE TrimStart(_)
TrimStart(str) ==
    IF str = <<>> THEN str
    ELSE IF Head(str) = " " THEN TrimStart(Tail(str)) ELSE str

RECURSIVE TrimEnd(_)
TrimEnd(str) ==
    IF str = <<>> THEN str
    ELSE IF str[Len(str)] = " " THEN TrimEnd(SubSeq(str, 1, Len(str) - 1)) ELSE str

\* String.prototype.trim
\* a faulty trim that keeps the whitespace
noTrim(str) == str

\* String.prototype.trim
trim(str) == TrimEnd(TrimStart(str))

\* !str : the empty string is the only falsy string
Falsy(str) == str = <<>>

EmptyPrompt == <<>>
Prompts == {<<>>, <<" ">>, <<"x">>, <<" ", "x", " ">>}

NoId == -1
NoError == Null

\* items.filter(x => x.id !== id)
RECURSIVE FilterOutId(_, _)
FilterOutId(items, id) ==
    IF items = <<>> THEN <<>>
    ELSE IF Head(items).id # id
         THEN <<Head(items)>> \o FilterOutId(Tail(items), id)
         ELSE FilterOutId(Tail(items), id)

\* a panel's <audio> element
NewPanelAudio == [src |-> NoSrc, paused |-> TRUE, currentTime |-> 0,
                  volume |-> FullVolume]

\* the clock advances
Tick ==
    /\ now < MaxClock
    /\ now' = now + 1
    /\ UNCHANGED <<providerVars, hookVars, activeTab, props, musicVars, sfxVars,
                   voiceVars, lastPanelOp>>

----------------------------------------------------------------------------
(* SoundEffectsPanel *)

SfxInitialCategory == "nature"
SfxInitialDuration == 3
SfxCategories == {"nature", "ui"}
SfxDurations == {1, 3}

InitialSfx == [prompt |-> EmptyPrompt, category |-> SfxInitialCategory,
               duration |-> SfxInitialDuration, isGenerating |-> FALSE,
               error |-> NoError, sounds |-> <<>>, playingSoundId |-> NoId]

\* one handler of the mounted panel: the state and the element it leaves
SfxStep(s, a, op) ==
    /\ activeTab = "soundfx"
    /\ sfx' = s
    /\ sfxAudio' = a
    /\ lastPanelOp' = op
    /\ UNCHANGED <<providerVars, hookVars, activeTab, now, props, musicVars,
                   voiceVars>>

\* the Generate Sound button: disabled={isGenerating || !prompt.trim()}
SfxGenerateDisabledOf(s) == s.isGenerating \/ Falsy(trim(s.prompt))
SfxGenerateDisabled == SfxGenerateDisabledOf(sfx)

\* the input's onChange: setPrompt(e.target.value)
SfxSetPrompt(text) ==
    /\ SfxStep([sfx EXCEPT !.prompt = text], sfxAudio, "setPrompt")

SfxSetCategory(category) ==
    /\ SfxStep([sfx EXCEPT !.category = category], sfxAudio, "setCategory")

SfxSetDuration(seconds) ==
    /\ SfxStep([sfx EXCEPT !.duration = seconds], sfxAudio, "setDuration")

\* a faulty generation whose sounds all carry a source
NewSoundWithUrl(s, audioUrl) ==
    [id |-> now, prompt |-> s.prompt, category |-> s.category,
     duration |-> s.duration, audioUrl |-> "u1", createdAt |-> now]

\* the sound handleGenerate builds; audioUrl is what the generation returned
NewSound(s, audioUrl) ==
    [id |-> now, prompt |-> s.prompt, category |-> s.category,
     duration |-> s.duration, audioUrl |-> audioUrl, createdAt |-> now]

\* handleGenerate, from its first setState to its finally
SfxGenerated(s, audioUrl) ==
    IF Falsy(trim(s.prompt)) THEN s
    ELSE [s EXCEPT !.isGenerating = FALSE, !.error = NoError,
                   !.sounds = <<NewSound(s, audioUrl)>> \o @,
                   !.prompt = EmptyPrompt]

SfxHandleGenerate(audioUrl, op) ==
    /\ Len(sfx.sounds) < MaxItems
    /\ SfxStep(SfxGenerated(sfx, audioUrl), sfxAudio, op)

\* onClick of the Generate Sound button
SfxClickGenerate(audioUrl) ==
    /\ ~SfxGenerateDisabled
    /\ SfxHandleGenerate(audioUrl, "clickGenerate")

\* onKeyDown of the input: Enter while not generating
SfxPressEnter(audioUrl) ==
    /\ ~sfx.isGenerating
    /\ SfxHandleGenerate(audioUrl, "pressEnter")

\* handlePlaySound(sound): what it makes of the panel (s: state, a: element)
SfxPlayed(p, sound) ==
    IF p.s.playingSoundId = sound.id
    THEN [s |-> [p.s EXCEPT !.playingSoundId = NoId],
          a |-> [p.a EXCEPT !.paused = TRUE]]
    ELSE IF sound.audioUrl # Undefined
    THEN [s |-> [p.s EXCEPT !.playingSoundId = sound.id],
          a |-> [p.a EXCEPT !.src = sound.audioUrl, !.paused = FALSE,
                            !.currentTime = 0]]
    ELSE p

\* a click on the play button of a listed sound: disabled={!sound.audioUrl}
SfxClickPlay(i) ==
    /\ i \in 1..Len(sfx.sounds)
    /\ LET sound == sfx.sounds[i]
           p == IF sound.audioUrl = Undefined THEN [s |-> sfx, a |-> sfxAudio]
                ELSE SfxPlayed([s |-> sfx, a |-> sfxAudio], sound)
       IN SfxStep(p.s, p.a, "clickPlay")

\* handleDeleteSound(sound.id), from the delete button of a listed sound
SfxHandleDeleteSound(i) ==
    /\ i \in 1..Len(sfx.sounds)
    /\ SfxStep([sfx EXCEPT !.sounds = FilterOutId(@, sfx.sounds[i].id)],
               sfxAudio, "handleDeleteSound")

\* playback of the panel's element reaches the end: onEnded
SfxEnded ==
    /\ ~sfxAudio.paused
    /\ SfxStep([sfx EXCEPT !.playingSoundId = NoId],
               [sfxAudio EXCEPT !.paused = TRUE], "onEnded")

----------------------------------------------------------------------------
(* MusicGenerationPanel *)

MusicInitialStyle == "cinematic"
MusicInitialMood == "tense"
MusicInitialDuration == 30
MusicStyles == {"cinematic", "epic"}
MusicMoods == {"tense", "calm"}
MusicDurations == {30, 45}

NoTrack == [id |-> NoId]

InitialMusic == [prompt |-> EmptyPrompt, selectedStyle |-> MusicInitialStyle,
                 selectedMood |-> MusicInitialMood,
                 duration |-> MusicInitialDuration, isGenerating |-> FALSE,
                 error |-> NoError, tracks |-> <<>>, currentTrack |-> NoTrack,
                 isPlaying |-> FALSE, currentTime |-> 0, volume |-> InitialVolume]

\* one handler of the mounted panel: the state and the element it leaves
MusicStep(s, a, op) ==
    /\ activeTab = "music"
    /\ music' = s
    /\ musicAudio' = a
    /\ lastPanelOp' = op
    /\ UNCHANGED <<providerVars, hookVars, activeTab, now, props, sfxVars,
                   voiceVars>>

\* the Generate Music button: disabled={isGenerating || !prompt.trim()}
MusicGenerateDisabledOf(s) == s.isGenerating \/ Falsy(trim(s.prompt))
MusicGenerateDisabled == MusicGenerateDisabledOf(music)

\* the ids of styleOptions and moodOptions, in the order of the arrays
styleOptions == <<"epic", "ambient", "electronic", "orchestral", "acoustic",
                  "cinematic">>
moodOptions == <<"tense", "calm", "uplifting", "dark", "mysterious", "energetic">>

\* the badges shown as selected: variant "default"
MusicSelectedStyleBadges(s) ==
    {i \in 1..Len(styleOptions) : s.selectedStyle = styleOptions[i]}
MusicSelectedMoodBadges(s) ==
    {i \in 1..Len(moodOptions) : s.selectedMood = moodOptions[i]}

\* the input's onChange: setPrompt(e.target.value)
MusicSetPrompt(text) ==
    /\ MusicStep([music EXCEPT !.prompt = text], musicAudio, "setPrompt")

\* a faulty style badge that puts the mood back to its first value
MusicSelectStyleResetsMood(style) ==
    /\ MusicStep([music EXCEPT !.selectedStyle = style,
                               !.selectedMood = MusicInitialMood],
                 musicAudio, "selectStyle")

\* onClick of a style badge
MusicSelectStyle(style) ==
    /\ MusicStep([music EXCEPT !.selectedStyle = style], musicAudio, "selectStyle")

\* onClick of a mood badge
MusicSelectMood(mood) ==
    /\ MusicStep([music EXCEPT !.selectedMood = mood], musicAudio, "selectMood")

\* onChange of the duration slider
MusicSetDuration(seconds) ==
    /\ MusicStep([music EXCEPT !.duration = seconds], musicAudio, "setDuration")

\* a faulty generation whose tracks all carry a source
NewTrackWithUrl(s, audioUrl) ==
    [id |-> now, prompt |-> s.prompt, style |-> s.selectedStyle,
     mood |-> s.selectedMood, duration |-> s.duration, audioUrl |-> "u1",
     createdAt |-> now]

\* the track handleGenerate builds; audioUrl is what the generation returned
NewTrack(s, audioUrl) ==
    [id |-> now, prompt |-> s.prompt, style |-> s.selectedStyle,
     mood |-> s.selectedMood, duration |-> s.duration, audioUrl |-> audioUrl,
     createdAt |-> now]

\* a faulty handleGenerate that adds the track at the end of the list
MusicGeneratedAtTail(s, audioUrl) ==
    IF Falsy(trim(s.prompt)) THEN s
    ELSE [s EXCEPT !.isGenerating = FALSE, !.error = NoError,
                   !.tracks = @ \o <<NewTrack(s, audioUrl)>>,
                   !.prompt = EmptyPrompt]

\* handleGenerate, from its first setState to its finally
MusicGenerated(s, audioUrl) ==
    IF Falsy(trim(s.prompt)) THEN s
    ELSE [s EXCEPT !.isGenerating = FALSE, !.error = NoError,
                   !.tracks = <<NewTrack(s, audioUrl)>> \o @,
                   !.prompt = EmptyPrompt]

\* onClick of the Generate Music button
MusicClickGenerate(audioUrl) ==
    /\ ~MusicGenerateDisabled
    /\ Len(music.tracks) < MaxItems
    /\ MusicStep(MusicGenerated(music, audioUrl), musicAudio, "clickGenerate")

\* a faulty handlePlayTrack that starts a new track where the old one stood
MusicPlayedKeepsTime(p, track) ==
    IF p.s.currentTrack # NoTrack /\ p.s.currentTrack.id = track.id /\ p.s.isPlaying
    THEN [s |-> [p.s EXCEPT !.isPlaying = FALSE],
          a |-> [p.a EXCEPT !.paused = TRUE]]
    ELSE IF track.audioUrl # Undefined
    THEN [s |-> [p.s EXCEPT !.currentTrack = track, !.isPlaying = TRUE],
          a |-> [p.a EXCEPT !.src = track.audioUrl, !.paused = FALSE]]
    ELSE p

\* handlePlayTrack(track): what it makes of the panel (s: state, a: element)
MusicPlayed(p, track) ==
    IF p.s.currentTrack # NoTrack /\ p.s.currentTrack.id = track.id /\ p.s.isPlaying
    THEN [s |-> [p.s EXCEPT !.isPlaying = FALSE],
          a |-> [p.a EXCEPT !.paused = TRUE]]
    ELSE IF track.audioUrl # Undefined
    THEN IF p.s.currentTrack = NoTrack \/ p.s.currentTrack.id # track.id
         THEN [s |-> [p.s EXCEPT !.currentTime = 0, !.currentTrack = track,
                                 !.isPlaying = TRUE],
               a |-> [p.a EXCEPT !.src = track.audioUrl, !.currentTime = 0,
                                 !.paused = FALSE]]
         ELSE [s |-> [p.s EXCEPT !.currentTrack = track, !.isPlaying = TRUE],
               a |-> [p.a EXCEPT !.paused = FALSE]]
    ELSE p

\* a click on the card of a listed track: handlePlayTrack(track)
MusicClickCard(i) ==
    /\ i \in 1..Len(music.tracks)
    /\ LET p == MusicPlayed([s |-> music, a |-> musicAudio], music.tracks[i])
       IN MusicStep(p.s, p.a, "clickCard")

\* a click on the play button of a listed track: disabled={!track.audioUrl}
MusicClickPlay(i) ==
    /\ i \in 1..Len(music.tracks)
    /\ LET track == music.tracks[i]
           p == IF track.audioUrl = Undefined THEN [s |-> music, a |-> musicAudio]
                ELSE MusicPlayed([s |-> music, a |-> musicAudio], track)
       IN MusicStep(p.s, p.a, "clickPlay")

\* a faulty handleDeleteTrack that only filters the list
MusicDeletedListOnly(p, trackId) ==
    [s |-> [p.s EXCEPT !.tracks = FilterOutId(@, trackId)], a |-> p.a]

\* handleDeleteTrack(trackId): what it makes of the panel
MusicDeleted(p, trackId) ==
    IF p.s.currentTrack # NoTrack /\ p.s.currentTrack.id = trackId
    THEN [s |-> [p.s EXCEPT !.currentTrack = NoTrack, !.isPlaying = FALSE,
                            !.tracks = FilterOutId(@, trackId)],
          a |-> [p.a EXCEPT !.paused = TRUE]]
    ELSE [s |-> [p.s EXCEPT !.tracks = FilterOutId(@, trackId)], a |-> p.a]

\* a click on the delete button of a listed track
MusicClickDelete(i) ==
    /\ i \in 1..Len(music.tracks)
    /\ LET p == MusicDeleted([s |-> music, a |-> musicAudio], music.tracks[i].id)
       IN MusicStep(p.s, p.a, "clickDelete")

\* the 'timeupdate' listener of the panel, after the playing element moved on
MusicTimeUpdate ==
    /\ ~musicAudio.paused
    /\ musicAudio.currentTime + 1 \in Times
    /\ MusicStep([music EXCEPT !.currentTime = musicAudio.currentTime + 1],
                 [musicAudio EXCEPT !.currentTime = @ + 1], "timeupdate")

\* tracks as a generation service would return them, with and without a source
TrackInput(id, audioUrl) ==
    [id |-> id, prompt |-> <<"x">>, style |-> MusicInitialStyle,
     mood |-> MusicInitialMood, duration |-> MusicInitialDuration,
     audioUrl |-> audioUrl, createdAt |-> id]
TrackInputs == {TrackInput(0, "u1"), TrackInput(1, "u2"), TrackInput(1, Undefined)}

\* the track lists of at most MaxItems of them
TrackLists == UNION {[1..n -> TrackInputs] : n \in 1..MaxItems}

\* Number.prototype.toString() of a whole number that is not negative
Digits == <<"0", "1", "2", "3", "4", "5", "6", "7", "8", "9">>
RECURSIVE toString(_)
toString(n) ==
    IF n < 10 THEN <<Digits[n + 1]>>
    ELSE toString(n \div 10) \o <<Digits[(n % 10) + 1]>>

\* String.prototype.padStart(targetLength, padString) with a one-character pad
RECURSIVE padStart(_, _, _)
padStart(str, targetLength, padString) ==
    IF Len(str) >= targetLength THEN str
    ELSE padStart(<<padString>> \o str, targetLength, padString)

\* a faulty formatTime that does not pad the seconds
formatTimeUnpadded(seconds) ==
    LET mins == seconds \div 60
        secs == seconds % 60
    IN toString(mins) \o <<":">> \o toString(secs)

\* formatTime(seconds) for whole seconds: Math.floor leaves mins' quotient
\* rounded down and secs as it is
formatTime(seconds) ==
    LET mins == seconds \div 60
        secs == seconds % 60
    IN toString(mins) \o <<":">> \o padStart(toString(secs), 2, "0")

\* the values of the duration slider: min 15, max 120, step 15
SliderDurations == {15 * k : k \in 1..8}

\* the texts the panel shows: beside the slider, and in each entry of the list
MusicDurationLabel == formatTime(music.duration)
MusicTrackLabel(i) == formatTime(music.tracks[i].duration)

----------------------------------------------------------------------------
(* VoiceControlPanel *)

\* an optional text that is undefined
UndefinedText == [undefined |-> TRUE]

\* ids are 'voice-1', 'voice-2' and 'voice-' + Date.now(): a literal number
\* or a reading of the clock, which never meet
VoiceId(stamp, n) == [prefix |-> "voice", stamp |-> stamp, n |-> n]
NoVoiceId == [prefix |-> Null, stamp |-> Null, n |-> 0]

\* the settings of a cloned voice, in hundredths
CloneSettings == [stability |-> 50, similarityBoost |-> 75, style |-> 0,
                  useSpeakerBoost |-> TRUE]

\* the mock data of loadVoices
MockVoices ==
    << [id |-> VoiceId("literal", 1), name |-> <<"Hero Voice">>,
        characterName |-> [text |-> <<"Hero">>],
        description |-> [text |-> <<"Deep, confident male voice">>],
        category |-> "cloned", previewUrl |-> Undefined,
        settings |-> [stability |-> 50, similarityBoost |-> 75, style |-> 0,
                      useSpeakerBoost |-> TRUE]],
       [id |-> VoiceId("literal", 2), name |-> <<"Narrator">>,
        characterName |-> [text |-> <<"Narrator">>],
        description |-> [text |-> <<"Warm, storytelling voice">>],
        category |-> "premade", previewUrl |-> Undefined,
        settings |-> [stability |-> 70, similarityBoost |-> 80, style |-> 20,
                      useSpeakerBoost |-> FALSE]] >>

InitialVoice == [voices |-> <<>>, isLoading |-> FALSE, error |-> NoError,
                 showCloneDialog |-> FALSE, playingVoiceId |-> NoVoiceId,
                 cloneName |-> EmptyPrompt, cloneCharacter |-> EmptyPrompt,
                 isCloning |-> FALSE]

\* a faulty loadVoices that adds the mock data to the list it finds
loadVoicesAppending(s) == [s EXCEPT !.isLoading = FALSE, !.error = NoError,
                                    !.voices = @ \o MockVoices]

\* loadVoices, from its first setState to its finally
loadVoices(s) == [s EXCEPT !.isLoading = FALSE, !.error = NoError,
                           !.voices = MockVoices]

\* the panel after its mount and the effect of the mount
MountedVoice == loadVoices(InitialVoice)

\* the props of the container, and the values they change to
InitialProps == [sessionId |-> "s1", projectId |-> "p1"]
SessionIds == {"s1", "s2"}
ProjectIds == {"p1", "p2"}

\* the container is rendered with other props: in a mounted VoiceControlPanel
\* the effect on [sessionId, projectId] runs loadVoices again
SidebarSetProps(sessionId, projectId) ==
    /\ <<sessionId, projectId>> # <<props.sessionId, props.projectId>>
    /\ props' = [sessionId |-> sessionId, projectId |-> projectId]
    /\ voice' = IF activeTab = "voice" THEN loadVoices(voice) ELSE voice
    /\ lastPanelOp' = "setProps"
    /\ UNCHANGED <<providerVars, hookVars, activeTab, now, musicVars, sfxVars,
                   voiceAudio>>

\* one handler of the mounted panel: the state and the element it leaves
VoiceStep(s, a, op) ==
    /\ activeTab = "voice"
    /\ voice' = s
    /\ voiceAudio' = a
    /\ lastPanelOp' = op
    /\ UNCHANGED <<providerVars, hookVars, activeTab, now, props, musicVars,
                   sfxVars>>

\* the Clone button of the header: setShowCloneDialog(true)
VoiceOpenDialog ==
    /\ ~voice.showCloneDialog
    /\ VoiceStep([voice EXCEPT !.showCloneDialog = TRUE], voiceAudio, "openDialog")

\* the dialog is dismissed (onOpenChange), or Cancel is clicked while not cloning
VoiceCloseDialog ==
    /\ voice.showCloneDialog
    /\ VoiceStep([voice EXCEPT !.showCloneDialog = FALSE], voiceAudio, "closeDialog")

\* the inputs of the dialog
VoiceSetCloneName(text) ==
    /\ voice.showCloneDialog
    /\ VoiceStep([voice EXCEPT !.cloneName = text], voiceAudio, "setCloneName")

VoiceSetCloneCharacter(text) ==
    /\ voice.showCloneDialog
    /\ VoiceStep([voice EXCEPT !.cloneCharacter = text], voiceAudio,
                 "setCloneCharacter")

\* the Clone Voice button: disabled={isCloning || !cloneName.trim()}
VoiceCloneDisabledOf(s) == s.isCloning \/ Falsy(trim(s.cloneName))
VoiceCloneDisabled == VoiceCloneDisabledOf(voice)

\* the voice handleCloneVoice builds
NewVoice(s) ==
    [id |-> VoiceId("clock", now), name |-> s.cloneName,
     characterName |-> IF Falsy(s.cloneCharacter) THEN UndefinedText
                       ELSE [text |-> s.cloneCharacter],
     description |-> UndefinedText, category |-> "cloned",
     previewUrl |-> Undefined, settings |-> CloneSettings]

\* a faulty handleCloneVoice that puts the voice first
handleCloneVoiceAtHead(s) ==
    IF Falsy(trim(s.cloneName)) THEN s
    ELSE [s EXCEPT !.isCloning = FALSE, !.voices = <<NewVoice(s)>> \o @,
                   !.showCloneDialog = FALSE, !.cloneName = EmptyPrompt,
                   !.cloneCharacter = EmptyPrompt]

\* handleCloneVoice, from its guard to its finally
handleCloneVoice(s) ==
    IF Falsy(trim(s.cloneName)) THEN s
    ELSE [s EXCEPT !.isCloning = FALSE, !.voices = Append(@, NewVoice(s)),
                   !.showCloneDialog = FALSE, !.cloneName = EmptyPrompt,
                   !.cloneCharacter = EmptyPrompt]

\* onClick of the Clone Voice button
VoiceClickClone ==
    /\ voice.showCloneDialog
    /\ ~VoiceCloneDisabled
    /\ Len(voice.voices) <= MaxItems
    /\ VoiceStep(handleCloneVoice(voice), voiceAudio, "clickClone")

\* handlePlayPreview(voice): what it makes of the panel (s: state, a: element)
VoicePlayed(p, v) ==
    IF p.s.playingVoiceId = v.id
    THEN [s |-> [p.s EXCEPT !.playingVoiceId = NoVoiceId],
          a |-> [p.a EXCEPT !.paused = TRUE]]
    ELSE IF v.previewUrl # Undefined
    THEN [s |-> [p.s EXCEPT !.playingVoiceId = v.id],
          a |-> [p.a EXCEPT !.src = v.previewUrl, !.currentTime = 0,
                            !.paused = FALSE]]
    ELSE p

\* a click on the preview button of a listed voice: disabled={!voice.previewUrl}
VoiceClickPreview(i) ==
    /\ i \in 1..Len(voice.voices)
    /\ LET v == voice.voices[i]
           p == IF v.previewUrl = Undefined THEN [s |-> voice, a |-> voiceAudio]
                ELSE VoicePlayed([s |-> voice, a |-> voiceAudio], v)
       IN VoiceStep(p.s, p.a, "clickPreview")

\* handleDeleteVoice(voiceId), with the answer given to confirm()
handleDeleteVoice(s, voiceId, confirmed) ==
    IF confirmed THEN [s EXCEPT !.voices = FilterOutId(@, voiceId)] ELSE s

\* a click on the delete button of a listed voice
VoiceClickDelete(i, confirmed) ==
    /\ i \in 1..Len(voice.voices)
    /\ VoiceStep(handleDeleteVoice(voice, voice.voices[i].id, confirmed),
                 voiceAudio, "clickDelete")

\* the names and characters typed into the dialog
CloneNames == {<<>>, <<" ">>, <<" ", "x">>}
CloneCharacters == {<<>>, <<"h">>}

----------------------------------------------------------------------------
(* TimelineSidebarContainer: one tab's content is mounted at a time *)

InitialTab == "checkpoints"
Tabs == {"checkpoints", "voice", "soundfx", "music"}

\* onValueChange={setActiveTab}: the panel left is unmounted and loses its
\* state, the panel entered is mounted with its initial state
SetActiveTab(tab) ==
    /\ tab # activeTab
    /\ activeTab' = tab
    /\ music' = InitialMusic
    /\ musicAudio' = NewPanelAudio
    /\ sfx' = InitialSfx
    /\ sfxAudio' = NewPanelAudio
    /\ voice' = IF tab = "voice" THEN MountedVoice ELSE InitialVoice
    /\ voiceAudio' = NewPanelAudio
    /\ lastPanelOp' = "setActiveTab"
    /\ UNCHANGED <<providerVars, hookVars, now, props>>

\* the components that hold a media element of their own
MediaElementOwners ==
    (IF HasAudio THEN {"AudioProvider"} ELSE {})
    \cup (IF activeTab = "music" THEN {"MusicGenerationPanel"} ELSE {})
    \cup (IF activeTab = "soundfx" THEN {"SoundEffectsPanel"} ELSE {})
    \cup (IF activeTab = "voice" THEN {"VoiceControlPanel"} ELSE {})

----------------------------------------------------------------------------
(* Specification of the AudioProvider *)

InitProvider ==
    /\ state = InitialState
    /\ rendered = Captured(InitialState)
    /\ audio = MountAudio(InitialState)
    /\ events = <<>>
    /\ playPending = FALSE
    /\ calls = <<>>
    /\ lastOp = "mount"

InitHook ==
    /\ hookContext = NoContext
    /\ hookResult = HookNotRun

InitPanels ==
    /\ activeTab = InitialTab
    /\ now = 0
    /\ music = InitialMusic
    /\ musicAudio = NewPanelAudio
    /\ sfx = InitialSfx
    /\ sfxAudio = NewPanelAudio
    /\ props = InitialProps
    /\ voice = InitialVoice
    /\ voiceAudio = NewPanelAudio
    /\ lastPanelOp = "mount"

Init == InitProvider /\ InitHook /\ InitPanels

\* every operation, listener and media step, with the operations' arguments
\* drawn from the given sets
NextOn(tracks, times, volumes) ==
    \/ \E track \in tracks : playAudio(track[1], track[2])
    \/ pauseAudio
    \/ stopAudio
    \/ \E track \in tracks : togglePlayPause(track[1], track[2])
    \/ \E time \in times : seekTo(time)
    \/ \E volume \in volumes : setVolume(volume)
    \/ Render
    \/ MediaEvent
    \/ TimeUpdateEvent
    \/ DurationChangeEvent
    \/ PlayRejected
    \/ PlayResolved
    \/ MediaProgress
    \/ MediaDuration
    \/ MediaEnded

\* every track; the volume is only ever set to its initial value
Next == NextOn(Tracks, Times, {InitialVolume})

Spec == Init /\ [][Next]_vars

\* one track, and every kind of volume input: below 0, inside [0, 1], above 1
NextVolume == NextOn({<<"a", "u1">>}, Times, VolumeInputs)

SpecVolume == Init /\ [][NextVolume]_vars

\* the players mounted: one per track, and one of track a without a url
Players == Tracks \cup {<<"a", Undefined>>}

\* the provider driven through useAudioPlayer only: play, pause, toggle and
\* seekTo of every player, the renders, and the media element's steps
NextPlayer ==
    \/ \E player \in Players : playerPlay(player[1], player[2])
    \/ playerPause
    \/ \E player \in Players : playerToggle(player[1], player[2])
    \/ \E time \in Times : seekTo(time)
    \/ Render
    \/ MediaEvent
    \/ TimeUpdateEvent
    \/ DurationChangeEvent
    \/ PlayRejected
    \/ PlayResolved
    \/ MediaProgress
    \/ MediaDuration
    \/ MediaEnded

SpecPlayer == Init /\ [][NextPlayer]_vars

----------------------------------------------------------------------------
(* Specification of the hooks: a component rendered outside a provider or  *)
(* inside one whose value is any context value                             *)

InitUseAudio ==
    /\ InitProvider
    /\ InitPanels
    /\ hookContext \in Contexts
    /\ hookResult = HookNotRun

NextUseAudio ==
    \/ RunUseAudio
    \/ \E id \in Ids : RunUseAudioPlayer(id)

SpecUseAudio == InitUseAudio /\ [][NextUseAudio]_vars

----------------------------------------------------------------------------
(* Specification of the sidebar and its panels *)

\* every handler of the SoundEffectsPanel, on the given inputs; a generation
\* returns one of audioUrls
NextSfxOn(prompts, categories, durations, audioUrls) ==
    \/ \E text \in prompts : SfxSetPrompt(text)
    \/ \E category \in categories : SfxSetCategory(category)
    \/ \E seconds \in durations : SfxSetDuration(seconds)
    \/ \E audioUrl \in audioUrls : SfxClickGenerate(audioUrl)
    \/ \E audioUrl \in audioUrls : SfxPressEnter(audioUrl)
    \/ \E i \in 1..MaxItems : SfxClickPlay(i)
    \/ \E i \in 1..MaxItems : SfxHandleDeleteSound(i)

\* every handler of the MusicGenerationPanel, on the given inputs
NextMusicOn(prompts, styles, moods, durations, audioUrls) ==
    \/ \E text \in prompts : MusicSetPrompt(text)
    \/ \E style \in styles : MusicSelectStyle(style)
    \/ \E mood \in moods : MusicSelectMood(mood)
    \/ \E seconds \in durations : MusicSetDuration(seconds)
    \/ \E audioUrl \in audioUrls : MusicClickGenerate(audioUrl)
    \/ \E i \in 1..MaxItems : MusicClickCard(i)
    \/ \E i \in 1..MaxItems : MusicClickPlay(i)
    \/ \E i \in 1..MaxItems : MusicClickDelete(i)

\* generation as implemented: audioUrl: undefined.  Every prompt, two
\* categories and two styles; the other selections are clicked at the value
\* they already have.
NextSidebar ==
    \/ \E tab \in Tabs : SetActiveTab(tab)
    \/ Tick
    \/ NextSfxOn(Prompts, SfxCategories, {SfxInitialDuration}, {Undefined})
    \/ NextMusicOn(Prompts, MusicStyles, {MusicInitialMood},
                   {MusicInitialDuration}, {Undefined})

SpecSidebar == Init /\ [][NextSidebar]_vars

\* sounds as a generation service would return them, with and without a source
SoundInput(id, audioUrl) ==
    [id |-> id, prompt |-> <<"x">>, category |-> SfxInitialCategory,
     duration |-> SfxInitialDuration, audioUrl |-> audioUrl, createdAt |-> id]
SoundInputs == {SoundInput(0, "u1"), SoundInput(1, "u2"), SoundInput(1, Undefined),
                SoundInput(2, "u1")}

\* the sound lists of at most MaxItems of them
SoundLists == UNION {[1..n -> SoundInputs] : n \in 1..MaxItems}

\* the sound-effects panel with a list of sounds given: handlePlaySound,
\* handleDeleteSound, and the end of the sound that plays
InitSound ==
    /\ InitProvider
    /\ InitHook
    /\ activeTab = "soundfx"
    /\ now = 0
    /\ music = InitialMusic
    /\ musicAudio = NewPanelAudio
    /\ sfx \in {[InitialSfx EXCEPT !.sounds = list] : list \in SoundLists}
    /\ sfxAudio = NewPanelAudio
    /\ props = InitialProps
    /\ voice = InitialVoice
    /\ voiceAudio = NewPanelAudio
    /\ lastPanelOp = "mount"

NextSound ==
    \/ \E i \in 1..MaxItems : SfxClickPlay(i)
    \/ \E i \in 1..MaxItems : SfxHandleDeleteSound(i)
    \/ SfxEnded

SpecSound == InitSound /\ [][NextSound]_vars

\* the music panel with a list of tracks given: handlePlayTrack through the
\* card and the play button, handleDeleteTrack, and the playing element
InitTrack ==
    /\ InitProvider
    /\ InitHook
    /\ activeTab = "music"
    /\ now = 0
    /\ music \in {[InitialMusic EXCEPT !.tracks = list] : list \in TrackLists}
    /\ musicAudio = NewPanelAudio
    /\ sfx = InitialSfx
    /\ sfxAudio = NewPanelAudio
    /\ props = InitialProps
    /\ voice = InitialVoice
    /\ voiceAudio = NewPanelAudio
    /\ lastPanelOp = "mount"

NextTrack ==
    \/ \E i \in 1..MaxItems : MusicClickCard(i)
    \/ \E i \in 1..MaxItems : MusicClickPlay(i)
    \/ \E i \in 1..MaxItems : MusicClickDelete(i)
    \/ MusicTimeUpdate

SpecTrack == InitTrack /\ [][NextTrack]_vars

\* the sidebar with the music form in use: an empty and a non-blank prompt,
\* two styles and two moods
NextSelect ==
    \/ \E tab \in Tabs : SetActiveTab(tab)
    \/ Tick
    \/ NextMusicOn({EmptyPrompt, <<"x">>}, MusicStyles, MusicMoods,
                   {MusicInitialDuration}, {Undefined})

SpecSelect == Init /\ [][NextSelect]_vars

\* the music form with the slider moved over all its values
NextFormat ==
    \/ \E tab \in Tabs : SetActiveTab(tab)
    \/ MusicSetPrompt(<<"x">>)
    \/ \E seconds \in SliderDurations : MusicSetDuration(seconds)
    \/ MusicClickGenerate(Undefined)
    \/ \E i \in 1..MaxItems : MusicClickDelete(i)

SpecFormat == Init /\ [][NextFormat]_vars

\* every handler of the VoiceControlPanel
NextVoicePanel ==
    \/ VoiceOpenDialog
    \/ VoiceCloseDialog
    \/ \E text \in CloneNames : VoiceSetCloneName(text)
    \/ \E text \in CloneCharacters : VoiceSetCloneCharacter(text)
    \/ VoiceClickClone
    \/ \E i \in 1..(MaxItems + 1) : VoiceClickPreview(i)
    \/ \E i \in 1..(MaxItems + 1), confirmed \in BOOLEAN : VoiceClickDelete(i, confirmed)

\* the sidebar with the voice tab in use: the tabs, the clock, the props the
\* container is given, and the handlers of the VoiceControlPanel
NextVoice ==
    \/ \E tab \in Tabs : SetActiveTab(tab)
    \/ Tick
    \/ \E sessionId \in SessionIds, projectId \in ProjectIds :
          SidebarSetProps(sessionId, projectId)
    \/ NextVoicePanel

SpecVoice == Init /\ [][NextVoice]_vars

\* the sidebar with its three audio panels, generation as implemented
NextPanels ==
    \/ NextSidebar
    \/ NextVoicePanel

SpecPanels == Init /\ [][NextPanels]_vars

----------------------------------------------------------------------------
(* Properties *)

Range(seq) == {seq[i] : i \in 1..Len(seq)}

\* a string with no character other than whitespace
Blank(str) == \A i \in 1..Len(str) : str[i] = " "

\* v limited to [0, 1], in tenths
LimitedTo01(v) == IF v < 0 THEN 0 ELSE IF v > FullVolume THEN FullVolume ELSE v

\* C1: setVolume(v) stores max(0, min(1, v)) as the context's volume and as the
\* element's volume, for inputs below 0, inside [0, 1] and above 1; only
\* setVolume changes the volume; the volume lies in [0, 1] in every reachable
\* state.
VolumeClamped ==
    /\ [](state.volume \in 0..FullVolume /\ audio.volume \in 0..FullVolume)
    /\ [][\A v \in VolumeInputs :
             (lastOp' = "setVolume" /\ setVolume(v))
             => /\ state'.volume = LimitedTo01(v)
                /\ audio'.volume = LimitedTo01(v)]_vars
    /\ [][state'.volume # state.volume => lastOp' = "setVolume"]_vars

\* setVolume(-0.5) has run and left both volumes at 0
VolumeClampedWitness ==
    /\ lastOp = "setVolume"
    /\ state.volume = 0
    /\ audio.volume = 0

\* what playAudio(id, url) does to the context and the element
playAudioEffect(id, url) ==
    /\ state' = playAudioState(state, id, url)
    /\ calls' = playAudioCalls(url)
    /\ \E allowed \in BOOLEAN :
          LET w == ElemRun(World, playAudioCalls(url), url, allowed)
          IN audio' = w.audio /\ events' = w.events /\ playPending' = w.plays

\* C2: togglePlayPause(id, url), called on a context value that shows
\* currentlyPlayingId = id and isPlaying = true, pauses the element and sets
\* isPlaying to false, leaving currentlyPlayingId and currentlyPlayingUrl as
\* they are; called on any other context value it has exactly the effect of
\* playAudio(id, url).
TogglePausesActive ==
    [][\A track \in Tracks :
          LET id == track[1]
              url == track[2]
          IN
          (lastOp' = "togglePlayPause" /\ togglePlayPause(id, url)) =>
              IF rendered.currentlyPlayingId = id /\ rendered.isPlaying
              THEN /\ audio'.paused
                   /\ audio'.src = audio.src
                   /\ calls' = <<"pause">>
                   /\ ~state'.isPlaying
                   /\ state'.currentlyPlayingId = state.currentlyPlayingId
                   /\ state'.currentlyPlayingUrl = state.currentlyPlayingUrl
              ELSE playAudioEffect(id, url)]_vars

\* a toggle on the playing track has paused it and kept it current
TogglePausesActiveWitness ==
    /\ lastOp = "togglePlayPause"
    /\ calls = <<"pause">>
    /\ audio.paused
    /\ ~state.isPlaying
    /\ state.currentlyPlayingId = "a"
    /\ state.currentlyPlayingUrl = "u1"

\* C3: isCurrentlyPlaying(id) is true for at most one id, and among
\* useAudioPlayer consumers with distinct ids at most one reports isPlaying
\* and at most one reports isActive (on the rendered value and on the state
\* the next render will show).
AtMostOnePlaying ==
    /\ Cardinality({id \in Ids : isCurrentlyPlaying(id)}) <= 1
    /\ \A value \in {rendered, state} :
          /\ Cardinality({id \in Ids : playerIsPlaying(value, id)}) <= 1
          /\ Cardinality({id \in Ids : playerIsActive(value, id)}) <= 1

\* one track is marked playing while playAudio has already named the other
AtMostOnePlayingWitness ==
    /\ isCurrentlyPlaying("a")
    /\ ~isCurrentlyPlaying("b")
    /\ playerIsActive(state, "b")
    /\ playerIsPlaying(state, "b")

\* C4: playAudio(id2, url2), called while track id1 with another url1 is
\* playing, sets the element's src to url2 and reloads it before it requests
\* play; afterwards currentlyPlayingId = id2, currentlyPlayingUrl = url2 and
\* (for another track id1) isCurrentlyPlaying(id1) is false.  pauseAudio
\* leaves isPlaying false and the element paused.
ReplacingStopsPrior ==
    /\ [][\A track1 \in Tracks, track2 \in Tracks :
             LET id1 == track1[1]
                 url1 == track1[2]
                 id2 == track2[1]
                 url2 == track2[2]
             IN
             ( /\ url1 # url2
               /\ rendered.currentlyPlayingId = id1
               /\ rendered.currentlyPlayingUrl = url1
               /\ rendered.isPlaying
               /\ lastOp' = "playAudio"
               /\ playAudio(id2, url2) )
             => /\ calls' = <<"src", "load", "play">>
                /\ audio'.src = url2
                /\ state'.currentlyPlayingId = id2
                /\ state'.currentlyPlayingUrl = url2
                /\ id1 # id2 => ~isCurrentlyPlayingOf(state', id1)]_vars
    /\ [][(lastOp' = "pauseAudio" /\ pauseAudio)
          => ~state'.isPlaying /\ audio'.paused]_vars

\* track b with u2 has replaced the playing track a with u1
ReplacingStopsPriorWitness ==
    /\ lastOp = "playAudio"
    /\ calls = <<"src", "load", "play">>
    /\ rendered = [currentlyPlayingId |-> "a", currentlyPlayingUrl |-> "u1",
                   isPlaying |-> TRUE]
    /\ state.currentlyPlayingId = "b"
    /\ state.currentlyPlayingUrl = "u2"
    /\ audio.src = "u2"

\* C5: all playback is driven through a single media element: the
\* application holds no more than one.
SingleMediaElement == Cardinality(MediaElementOwners) <= 1

\* C6: a rejected play() promise is caught and logged: the step that settles
\* it as rejected calls console.error and nothing else, and changes neither
\* the context state nor the element.
RejectionOnlyLogged ==
    [][(playPending /\ ~playPending' /\ lastOp' = "playRejected")
       => /\ calls' = <<"console.error">>
          /\ state' = state
          /\ rendered' = rendered
          /\ audio' = audio]_vars

\* play() was refused and rejected: the context still names the track as playing
RejectionOnlyLoggedWitness ==
    /\ lastOp = "playRejected"
    /\ calls = <<"console.error">>
    /\ audio.paused
    /\ state.currentlyPlayingId = "a"
    /\ state.currentlyPlayingUrl = "u1"
    /\ state.isPlaying

\* C7: in both panels the generate control is disabled exactly when the
\* prompt is empty or whitespace-only or a generation is in progress; entering
\* a non-blank prompt enables it; handleGenerate on a blank prompt changes
\* nothing.
GenerateNeedsPrompt ==
    /\ [](\A isGenerating \in BOOLEAN, text \in Prompts :
            /\ MusicGenerateDisabledOf([music EXCEPT !.isGenerating = isGenerating,
                                                     !.prompt = text])
                  <=> (isGenerating \/ Blank(text))
            /\ SfxGenerateDisabledOf([sfx EXCEPT !.isGenerating = isGenerating,
                                                 !.prompt = text])
                  <=> (isGenerating \/ Blank(text)))
    /\ [](/\ MusicGenerateDisabled <=> (music.isGenerating \/ Blank(music.prompt))
          /\ SfxGenerateDisabled <=> (sfx.isGenerating \/ Blank(sfx.prompt))
          /\ Blank(music.prompt) => MusicGenerated(music, Undefined) = music)
    /\ [][\A text \in Prompts :
             /\ (~Blank(text) /\ MusicSetPrompt(text)) => ~MusicGenerateDisabled'
             /\ (~Blank(text) /\ SfxSetPrompt(text)) => ~SfxGenerateDisabled']_vars
    /\ [][(Blank(sfx.prompt) /\ SfxPressEnter(Undefined))
          => sfx' = sfx /\ sfxAudio' = sfxAudio]_vars

\* Enter was pressed on a whitespace-only prompt and the list is as it was
GenerateNeedsPromptWitness ==
    /\ activeTab = "soundfx"
    /\ lastPanelOp = "pressEnter"
    /\ sfx.prompt = <<" ">>
    /\ Len(sfx.sounds) = 1
    /\ SfxGenerateDisabled

\* C8: useAudio and useAudioPlayer outside a provider fail with 'useAudio must
\* be used within an AudioProvider' and return no context value; inside a
\* provider they never fail and useAudio returns the provider's value.
UseAudioNeedsProvider ==
    hookResult # HookNotRun =>
        IF hookContext = NoContext
        THEN /\ hookResult.result.threw
             /\ hookResult.result.error = "useAudio must be used within an AudioProvider"
             /\ hookResult.result.value = NoContext
        ELSE /\ ~hookResult.result.threw
             /\ hookResult.hook = "useAudio" => hookResult.result.value = hookContext

\* useAudioPlayer has run outside a provider and thrown
UseAudioNeedsProviderWitness ==
    /\ hookContext = NoContext
    /\ hookResult # HookNotRun
    /\ hookResult.hook = "useAudioPlayer"
    /\ hookResult.result.threw

\* C9: before any operation or media event the state is currentlyPlayingId =
\* null, currentlyPlayingUrl = null, isPlaying = false, currentTime = 0,
\* duration = 0, volume = 0.7, and the element's volume is 0.7.
InitialStateAsStated ==
    lastOp = "mount" =>
        /\ state = [currentlyPlayingId |-> "null", currentlyPlayingUrl |-> "null",
                    isPlaying |-> FALSE, currentTime |-> 0, duration |-> 0,
                    volume |-> 7]
        /\ audio.volume = 7

\* the provider is mounted and nothing has been called
InitialStateAsStatedWitness ==
    /\ lastOp = "mount"
    /\ HasAudio
    /\ audio.paused
    /\ calls = <<>>

\* C10: from any state playAudio(id, url) leaves currentlyPlayingId = id,
\* currentlyPlayingUrl = url and isPlaying = true and requests play on the
\* element; it reloads the source only if url differs from the
\* currentlyPlayingUrl of the context value it was called on.
PlayAudioSetsTrack ==
    [][\A track \in Tracks :
          LET id == track[1]
              url == track[2]
          IN
          (lastOp' = "playAudio" /\ playAudio(id, url)) =>
              /\ state'.currentlyPlayingId = id
              /\ state'.currentlyPlayingUrl = url
              /\ state'.isPlaying
              /\ calls' # <<>> /\ calls'[Len(calls')] = "play"
              /\ playPending'
              /\ "load" \in Range(calls') => url # rendered.currentlyPlayingUrl
              /\ audio'.src # audio.src => url # rendered.currentlyPlayingUrl]_vars

\* playAudio on the url already current has requested play without a reload
PlayAudioSetsTrackWitness ==
    /\ lastOp = "playAudio"
    /\ calls = <<"play">>
    /\ state.isPlaying
    /\ state.currentlyPlayingId = "b"
    /\ state.currentlyPlayingUrl = "u1"
    /\ audio.src = "u1"

\* C11: isCurrentlyPlaying(id) is true iff currentlyPlayingId = id and
\* isPlaying = true: false for every id before anything is played, true for id
\* and false for every other id right after playAudio(id, url), false for
\* every id right after pauseAudio, stopAudio and the 'ended' event.
IsCurrentlyPlayingIff ==
    /\ [](\A id \in Ids, value \in {rendered, state} :
            isCurrentlyPlayingOf(value, id)
                <=> (value.currentlyPlayingId = id /\ value.isPlaying = TRUE))
    /\ [](\A id \in Ids : isCurrentlyPlaying(id) = isCurrentlyPlayingOf(rendered, id))
    /\ [](lastOp = "mount" => \A id \in Ids : ~isCurrentlyPlaying(id))
    /\ [][\A track \in Tracks :
             (lastOp' = "playAudio" /\ playAudio(track[1], track[2]))
             => \A id \in Ids : isCurrentlyPlayingOf(state', id) <=> id = track[1]]_vars
    /\ [][(lastOp' \in {"pauseAudio", "stopAudio"} /\ (pauseAudio \/ stopAudio))
          => \A id \in Ids : ~isCurrentlyPlayingOf(state', id)]_vars
    /\ [][(events # <<>> /\ Head(events) = "ended" /\ MediaEvent)
          => \A id \in Ids : ~isCurrentlyPlayingOf(state', id)]_vars

\* pauseAudio has run on the playing track a: the value rendered before it
\* still marks a, the state the next render shows does not
IsCurrentlyPlayingIffWitness ==
    /\ lastOp = "pauseAudio"
    /\ isCurrentlyPlaying("a")
    /\ state.currentlyPlayingId = "a"
    /\ ~isCurrentlyPlayingOf(state, "a")

\* C12: a useAudioPlayer whose id is not currentlyPlayingId reports isActive
\* = false, isPlaying = false, currentTime = 0 and duration = 0 whatever the
\* shared position is; the active one reports the shared currentTime and
\* duration; isPlaying implies isActive; play() and toggle() of a player
\* without url change nothing.
PlayerReportsOwnTrack ==
    /\ [](\A id \in Ids :
            LET player == useAudioPlayer(id, ContextValue(state)).value
            IN /\ state.currentlyPlayingId # id
                  => player = [isPlaying |-> FALSE, isActive |-> FALSE,
                               currentTime |-> 0, duration |-> 0]
               /\ state.currentlyPlayingId = id
                  => /\ player.isActive
                     /\ player.currentTime = state.currentTime
                     /\ player.duration = state.duration
               /\ player.isPlaying => player.isActive)
    /\ [][\A id \in Ids :
             ( /\ lastOp' \in {"player.play", "player.toggle"}
               /\ playerPlay(id, Undefined) \/ playerToggle(id, Undefined) )
             => /\ calls' = <<>>
                /\ UNCHANGED <<state, rendered, audio, events, playPending>>]_vars

\* toggle() of the player without url has run while track b is active at
\* position 1: nothing was called, and the player of a reports position 0
PlayerReportsOwnTrackWitness ==
    /\ lastOp = "player.toggle"
    /\ calls = <<>>
    /\ state.currentlyPlayingId = "b"
    /\ state.isPlaying
    /\ state.currentTime = 1
    /\ state.duration = 1
    /\ useAudioPlayer("a", ContextValue(state)).value.currentTime = 0
    /\ useAudioPlayer("b", ContextValue(state)).value.currentTime = 1

\* the entries of the track list that show the pause icon:
\* currentTrack?.id === track.id && isPlaying
MusicMarkedPlaying ==
    {i \in 1..Len(music.tracks) :
        /\ music.currentTrack # NoTrack
        /\ music.currentTrack.id = music.tracks[i].id
        /\ music.isPlaying}

\* C13: in every reachable state of the MusicGenerationPanel at most one entry
\* of the track list is marked as playing, also when tracks were generated in
\* the same millisecond and share an id.
MusicAtMostOneMarked == Cardinality(MusicMarkedPlaying) <= 1

\* two tracks generated in the same millisecond share an id, and the card of
\* one of them has been clicked
MusicAtMostOneMarkedWitness ==
    /\ activeTab = "music"
    /\ lastPanelOp = "clickCard"
    /\ Len(music.tracks) = 2
    /\ music.tracks[1].id = music.tracks[2].id

\* the music panel after a generation from the form values given
MusicAfterGenerate(s, text, style, mood, seconds) ==
    [s EXCEPT !.tracks = <<[id |-> now, prompt |-> text, style |-> style,
                            mood |-> mood, duration |-> seconds,
                            audioUrl |-> "undefined", createdAt |-> now]>> \o @,
              !.prompt = <<>>, !.selectedStyle = style, !.selectedMood = mood,
              !.duration = seconds, !.isGenerating = FALSE, !.error = "null"]

\* the sound-effects panel after a generation from the form values given
SfxAfterGenerate(s, text, category, seconds) ==
    [s EXCEPT !.sounds = <<[id |-> now, prompt |-> text, category |-> category,
                            duration |-> seconds, audioUrl |-> "undefined",
                            createdAt |-> now]>> \o @,
              !.prompt = <<>>, !.category = category, !.duration = seconds,
              !.isGenerating = FALSE, !.error = "null"]

\* C14: a generation with a non-blank prompt (the button of either panel, or
\* Enter in the sound-effects input) puts exactly one new item at the head of
\* the list, with the prompt and the form values of that moment and no audio
\* URL; the items already listed keep their order; the prompt becomes empty,
\* isGenerating false and error null.
GenerateInsertsAtHead ==
    /\ [](\A text \in Prompts, style \in MusicStyles, mood \in MusicMoods,
            seconds \in MusicDurations :
            ~Blank(text) =>
                MusicGenerated([music EXCEPT !.prompt = text, !.selectedStyle = style,
                                             !.selectedMood = mood,
                                             !.duration = seconds], Undefined)
                = MusicAfterGenerate(music, text, style, mood, seconds))
    /\ [](\A text \in Prompts, category \in SfxCategories, seconds \in SfxDurations :
            ~Blank(text) =>
                SfxGenerated([sfx EXCEPT !.prompt = text, !.category = category,
                                         !.duration = seconds], Undefined)
                = SfxAfterGenerate(sfx, text, category, seconds))
    /\ [][(~Blank(music.prompt) /\ lastPanelOp' = "clickGenerate"
           /\ MusicClickGenerate(Undefined))
          => /\ music' = MusicAfterGenerate(music, music.prompt, music.selectedStyle,
                                            music.selectedMood, music.duration)
             /\ musicAudio' = musicAudio]_vars
    /\ [][(~Blank(sfx.prompt) /\ lastPanelOp' \in {"clickGenerate", "pressEnter"}
           /\ (SfxClickGenerate(Undefined) \/ SfxPressEnter(Undefined)))
          => /\ sfx' = SfxAfterGenerate(sfx, sfx.prompt, sfx.category, sfx.duration)
             /\ sfxAudio' = sfxAudio]_vars

\* Enter has put a second sound, of another category, before the first
GenerateInsertsAtHeadWitness ==
    /\ activeTab = "soundfx"
    /\ lastPanelOp = "pressEnter"
    /\ sfx.prompt = <<>>
    /\ Len(sfx.sounds) = 2
    /\ sfx.sounds[1].category = "ui"
    /\ sfx.sounds[1].prompt = <<" ", "x", " ">>
    /\ sfx.sounds[2].category = "nature"
    /\ sfx.sounds[2].prompt = <<"x">>

\* the list the VoiceControlPanel shows once loadVoices is done
TwoMockProfiles(list) ==
    /\ Len(list) = 2
    /\ list[1].id = [prefix |-> "voice", stamp |-> "literal", n |-> 1]
    /\ list[1].name = <<"Hero Voice">>
    /\ list[1].category = "cloned"
    /\ list[2].id = [prefix |-> "voice", stamp |-> "literal", n |-> 2]
    /\ list[2].name = <<"Narrator">>
    /\ list[2].category = "premade"

\* C15: after the mount of the VoiceControlPanel and after every change of
\* sessionId or projectId while it is mounted, the list holds exactly the two
\* mock profiles (voice-1 'Hero Voice', cloned; voice-2 'Narrator', premade),
\* isLoading is false and error is null; a reload replaces the whole list, so
\* no voice cloned before it is left.
LoadVoicesGivesMocks ==
    /\ [][(lastPanelOp' = "setActiveTab" /\ SetActiveTab("voice"))
            => /\ TwoMockProfiles(voice'.voices)
               /\ voice'.isLoading = FALSE
               /\ voice'.error = "null"]_vars
    /\ [][(lastPanelOp' = "setProps" /\ activeTab = "voice"
           /\ \E sessionId \in SessionIds, projectId \in ProjectIds :
                  SidebarSetProps(sessionId, projectId))
            => /\ props' # props
               /\ TwoMockProfiles(voice'.voices)
               /\ \A i \in 1..Len(voice'.voices) :
                     voice'.voices[i].id.stamp # "clock"
               /\ voice'.isLoading = FALSE
               /\ voice'.error = "null"]_vars

\* the props changed under a mounted panel, after the clock had moved and the
\* dialog had been used
LoadVoicesGivesMocksWitness ==
    /\ activeTab = "voice"
    /\ lastPanelOp = "setProps"
    /\ props.sessionId = "s2"
    /\ props.projectId = "p2"
    /\ Len(voice.voices) = 2
    /\ voice.cloneCharacter = <<"h">>

\* the panel handleCloneVoice leaves when the name is not blank
VoiceAfterClone(s) ==
    [s EXCEPT !.voices = @ \o <<[id |-> [prefix |-> "voice", stamp |-> "clock",
                                         n |-> now],
                                 name |-> s.cloneName,
                                 characterName |->
                                     IF s.cloneCharacter = <<>>
                                     THEN [undefined |-> TRUE]
                                     ELSE [text |-> s.cloneCharacter],
                                 description |-> [undefined |-> TRUE],
                                 category |-> "cloned",
                                 previewUrl |-> "undefined",
                                 settings |-> [stability |-> 50,
                                               similarityBoost |-> 75,
                                               style |-> 0,
                                               useSpeakerBoost |-> TRUE]]>>,
              !.showCloneDialog = FALSE, !.cloneName = <<>>,
              !.cloneCharacter = <<>>, !.isCloning = FALSE]

\* C16: the Clone Voice button is disabled exactly while the name is blank or
\* a clone is running; handleCloneVoice with a blank name changes nothing;
\* with a name that is not blank it appends exactly one voice of category
\* 'cloned' at the end of the list (characterName undefined when the character
\* field is empty), closes the dialog, clears both inputs and leaves isCloning
\* false.
CloneAppendsAtEnd ==
    /\ [](VoiceCloneDisabled <=> (voice.isCloning \/ Blank(voice.cloneName)))
    /\ [](\A name \in CloneNames, character \in CloneCharacters :
            LET s == [voice EXCEPT !.cloneName = name,
                                   !.cloneCharacter = character]
            IN handleCloneVoice(s) = IF Blank(name) THEN s ELSE VoiceAfterClone(s))
    /\ [][(lastPanelOp' = "clickClone" /\ VoiceClickClone)
            => /\ ~Blank(voice.cloneName)
               /\ voice' = VoiceAfterClone(voice)
               /\ Len(voice'.voices) = Len(voice.voices) + 1
               /\ voice'.voices[Len(voice'.voices)].category = "cloned"
               /\ \A i \in 1..Len(voice.voices) :
                     voice'.voices[i] = voice.voices[i]]_vars

\* a voice cloned with no character, after the two mock profiles
CloneAppendsAtEndWitness ==
    /\ activeTab = "voice"
    /\ lastPanelOp = "clickClone"
    /\ Len(voice.voices) = 3
    /\ voice.voices[1].name = <<"Hero Voice">>
    /\ voice.voices[3].name = <<" ", "x">>
    /\ voice.voices[3].category = "cloned"
    /\ voice.voices[3].characterName = [undefined |-> TRUE]
    /\ ~voice.showCloneDialog
    /\ voice.cloneName = <<>>

\* what C17 says of handlePlayTrack(track) on the panel p, leaving q
PlayTrackAsStated(p, track, q) ==
    /\ (p.s.currentTrack.id = track.id /\ p.s.isPlaying)
          => /\ q.a.paused
             /\ q.s.isPlaying = FALSE
             /\ q.s.currentTrack = p.s.currentTrack
             /\ q.s.currentTime = p.s.currentTime
             /\ q.a.src = p.a.src
    /\ (track.audioUrl # "undefined" /\ p.s.currentTrack.id # track.id)
          => /\ q.a.src = track.audioUrl
             /\ q.a.paused = FALSE
             /\ q.s.currentTime = 0
             /\ q.s.currentTrack = track
             /\ q.s.isPlaying = TRUE

\* C17: handlePlayTrack(track) called while currentTrack.id = track.id and
\* isPlaying pauses the element and sets isPlaying false, leaving currentTrack,
\* currentTime and the element's src unchanged; called for a track with an
\* audio URL that is not the current one it sets the element's src to that
\* URL, resets currentTime to 0, makes it the current track and sets isPlaying.
PlayTrackToggles ==
    /\ [](\A track \in TrackInputs :
            PlayTrackAsStated([s |-> music, a |-> musicAudio], track,
                              MusicPlayed([s |-> music, a |-> musicAudio], track)))
    /\ [][\A i \in 1..Len(music.tracks) :
            (lastPanelOp' = "clickCard" /\ MusicClickCard(i))
            => PlayTrackAsStated([s |-> music, a |-> musicAudio], music.tracks[i],
                                 [s |-> music', a |-> musicAudio'])]_vars

\* the second track was started while the first had played for a while, and
\* was then paused by a click on its card
PlayTrackTogglesWitness ==
    /\ lastPanelOp = "clickCard"
    /\ music.currentTrack.id = 1
    /\ music.currentTrack.audioUrl = "u2"
    /\ music.isPlaying = FALSE
    /\ music.currentTime = 1
    /\ musicAudio.paused
    /\ musicAudio.src = "u2"
    /\ Len(music.tracks) = 2
    /\ music.tracks[1].id = 0

\* C18: in every state exactly one style badge and exactly one mood badge is
\* shown as selected, 'cinematic' and 'tense' after the mount; a click on a
\* style badge sets selectedStyle to it and leaves selectedMood, prompt,
\* duration and the track list unchanged, and a click on a mood badge does the
\* same for selectedMood; the tracks listed keep the style and mood they were
\* generated with.
OneStyleOneMood ==
    /\ [](/\ Cardinality(MusicSelectedStyleBadges(music)) = 1
          /\ Cardinality(MusicSelectedMoodBadges(music)) = 1)
    /\ [](\A i \in 1..Len(styleOptions), j \in 1..Len(moodOptions) :
            LET s == [music EXCEPT !.selectedStyle = styleOptions[i],
                                   !.selectedMood = moodOptions[j]]
            IN /\ MusicSelectedStyleBadges(s) = {i}
               /\ MusicSelectedMoodBadges(s) = {j})
    /\ [](lastPanelOp \in {"mount", "setActiveTab"}
            => /\ music.selectedStyle = "cinematic"
               /\ music.selectedMood = "tense")
    /\ [][\A style \in MusicStyles :
            (lastPanelOp' = "selectStyle" /\ MusicSelectStyle(style))
            => /\ music'.selectedStyle = style
               /\ music'.selectedMood = music.selectedMood
               /\ music'.prompt = music.prompt
               /\ music'.duration = music.duration
               /\ music'.tracks = music.tracks]_vars
    /\ [][\A mood \in MusicMoods :
            (lastPanelOp' = "selectMood" /\ MusicSelectMood(mood))
            => /\ music'.selectedMood = mood
               /\ music'.selectedStyle = music.selectedStyle
               /\ music'.prompt = music.prompt
               /\ music'.duration = music.duration
               /\ music'.tracks = music.tracks]_vars
    /\ [][\A k \in 1..Len(music'.tracks) :
            \/ /\ k = 1
               /\ lastPanelOp' = "clickGenerate"
               /\ Tail(music'.tracks) = music.tracks
               /\ music'.tracks[1].style = music.selectedStyle
               /\ music'.tracks[1].mood = music.selectedMood
            \/ music'.tracks[k] \in Range(music.tracks)]_vars

\* a track generated as cinematic and tense is still listed so after the
\* style and then the mood were changed
OneStyleOneMoodWitness ==
    /\ activeTab = "music"
    /\ lastPanelOp = "selectMood"
    /\ music.selectedStyle = "epic"
    /\ music.selectedMood = "calm"
    /\ Len(music.tracks) = 2
    /\ music.tracks[1].style = "epic"
    /\ music.tracks[1].mood = "tense"
    /\ music.tracks[2].style = "cinematic"
    /\ music.tracks[2].mood = "tense"

\* the decimal numeral of a number below 1000, without leading zeros
Numeral(n) ==
    LET char(d) == CHOOSE c \in {"0", "1", "2", "3", "4", "5", "6", "7", "8", "9"} :
                      c = SubSeq(<<"0", "1", "2", "3", "4", "5", "6", "7", "8", "9">>,
                                 d + 1, d + 1)[1]
        h == n \div 100
        t == (n \div 10) % 10
        u == n % 10
    IN (IF h > 0 THEN <<char(h)>> ELSE <<>>)
       \o (IF h > 0 \/ t > 0 THEN <<char(t)>> ELSE <<>>)
       \o <<char(u)>>

\* minutes, a colon, and the seconds within the minute in two digits
MinutesAndSeconds(s) ==
    LET m == CHOOSE q \in 0..(1 + MaxFormat \div 60) : 60 * q <= s /\ s < 60 * (q + 1)
        r == s - 60 * m
        two == Numeral(r)
    IN Numeral(m) \o <<":">> \o (IF r < 10 THEN <<"0">> \o two ELSE two)

\* C19: formatTime(s) is floor(s / 60), a colon, and s mod 60 padded with
\* zeros to two digits, for every whole s from 0 to MaxFormat; every value of
\* the duration slider (15 to 120 in steps of 15) is shown so beside the slider
\* and in the list, and the default duration 30 as '0:30'.
FormatTimeAsStated ==
    /\ \A s \in 0..MaxFormat : formatTime(s) = MinutesAndSeconds(s)
    /\ MusicDurationLabel = MinutesAndSeconds(music.duration)
    /\ \A i \in 1..Len(music.tracks) :
          MusicTrackLabel(i) = MinutesAndSeconds(music.tracks[i].duration)
    /\ lastPanelOp \in {"mount", "setActiveTab"}
          => MusicDurationLabel = <<"0", ":", "3", "0">>
    /\ music.duration = 15 => MusicDurationLabel = <<"0", ":", "1", "5">>
    /\ music.duration = 45 => MusicDurationLabel = <<"0", ":", "4", "5">>
    /\ music.duration = 60 => MusicDurationLabel = <<"1", ":", "0", "0">>
    /\ music.duration = 75 => MusicDurationLabel = <<"1", ":", "1", "5">>
    /\ music.duration = 90 => MusicDurationLabel = <<"1", ":", "3", "0">>
    /\ music.duration = 105 => MusicDurationLabel = <<"1", ":", "4", "5">>
    /\ music.duration = 120 => MusicDurationLabel = <<"2", ":", "0", "0">>

\* the slider at its last value, with a one-minute track in the list
FormatTimeAsStatedWitness ==
    /\ activeTab = "music"
    /\ lastPanelOp = "setDuration"
    /\ music.duration = 120
    /\ MusicDurationLabel = <<"2", ":", "0", "0">>
    /\ Len(music.tracks) = 1
    /\ MusicTrackLabel(1) = <<"1", ":", "0", "0">>

\* C20: in every reachable state of the AudioProvider, between media events
\* too, isPlaying implies that currentlyPlayingId is not null; a 'play' event
\* delivered after stopAudio or after 'ended' cleared the track does not leave
\* isPlaying true with no track.
PlayingHasTrack ==
    /\ state.isPlaying => state.currentlyPlayingId # "null"
    /\ rendered.isPlaying => rendered.currentlyPlayingId # "null"

\* C21: whenever currentlyPlayingUrl is not null the element's src equals
\* it, also when playAudio is called more than once between two renders of
\* the provider.
SrcIsPlayingUrl ==
    state.currentlyPlayingUrl # "null" => audio.src = state.currentlyPlayingUrl

\* the context at rest, with the volume and duration of s
IdleLike(s) ==
    [currentlyPlayingId |-> "null", currentlyPlayingUrl |-> "null",
     isPlaying |-> FALSE, currentTime |-> 0, duration |-> s.duration,
     volume |-> s.volume]

\* C22: stopAudio and the 'ended' event both leave isPlaying false,
\* currentTime 0, currentlyPlayingId and currentlyPlayingUrl null, with volume
\* and duration as they were; isCurrentlyPlaying(id) is then false for every
\* id; and a playAudio called on the context rendered at rest, with the url the
\* element still holds from before, assigns the source again and loads it.
StopAndEndedGoIdle ==
    /\ [][(lastOp' = "stopAudio" /\ stopAudio)
            => /\ state' = IdleLike(state)
               /\ \A id \in Ids : ~isCurrentlyPlayingOf(state', id)]_vars
    /\ [][(events # <<>> /\ Head(events) = "ended" /\ MediaEvent)
            => /\ state' = IdleLike(state)
               /\ \A id \in Ids : ~isCurrentlyPlayingOf(state', id)]_vars
    /\ [][(rendered # rendered' /\ state = IdleLike(state) /\ Render)
            => \A id \in Ids : ~isCurrentlyPlayingOf(rendered', id)]_vars
    /\ [][\A track \in Tracks :
            (lastOp' = "playAudio" /\ audio.src = track[2]
             /\ rendered.currentlyPlayingUrl = "null"
             /\ state.currentlyPlayingUrl = "null"
             /\ playAudio(track[1], track[2]))
            => /\ calls' = <<"src", "load", "play">>
               /\ audio'.src = track[2]
               /\ audio'.currentTime = 0
               /\ state'.currentlyPlayingUrl = track[2]]_vars

\* a stopped track: the context at rest with the duration it had learned, the
\* element still holding the source, and the rest already rendered
StopAndEndedGoIdleWitness ==
    /\ lastOp = "stopAudio"
    /\ state.currentlyPlayingId = "null"
    /\ state.currentlyPlayingUrl = "null"
    /\ ~state.isPlaying
    /\ state.currentTime = 0
    /\ state.duration = 1
    /\ state.volume = 7
    /\ audio.src = "u1"
    /\ rendered.currentlyPlayingUrl = "null"

\* the element stands at the end of its source
AtEnd(a) == a.duration > 0 /\ a.currentTime >= a.duration

\* the step resumed the element where it stood: play() only, same source,
\* same position, and the context's position as it was
ResumedInPlace ==
    /\ calls' = <<"play">>
    /\ audio'.src = audio.src
    /\ audio'.currentTime = audio.currentTime
    /\ audio'.duration = audio.duration
    /\ state'.currentTime = state.currentTime
    /\ state'.isPlaying

\* C23: pauseAudio changes only isPlaying (currentlyPlayingId,
\* currentlyPlayingUrl, currentTime, duration and volume stay); a
\* togglePlayPause(id, url) or playAudio(id, url) called on the paused context
\* with the same id and url resumes without assigning src and without load,
\* at the position reached before the pause.
PauseKeepsPosition ==
    /\ [][(lastOp' = "pauseAudio" /\ pauseAudio)
            => /\ state' = [state EXCEPT !.isPlaying = FALSE]
               /\ calls' = <<"pause">>
               /\ audio'.paused
               /\ audio'.src = audio.src
               /\ audio'.currentTime = audio.currentTime]_vars
    /\ [][\A track \in Tracks :
            (lastOp' = "playAudio"
             /\ rendered.currentlyPlayingId = track[1]
             /\ rendered.currentlyPlayingUrl = track[2]
             /\ ~rendered.isPlaying /\ audio.paused /\ ~AtEnd(audio)
             /\ playAudio(track[1], track[2]))
            => ResumedInPlace]_vars
    /\ [][\A track \in Tracks :
            (lastOp' = "togglePlayPause"
             /\ rendered.currentlyPlayingId = track[1]
             /\ rendered.currentlyPlayingUrl = track[2]
             /\ ~rendered.isPlaying /\ audio.paused /\ ~AtEnd(audio)
             /\ togglePlayPause(track[1], track[2]))
            => ResumedInPlace]_vars

\* a track paused at position 1 and resumed there by togglePlayPause
PauseKeepsPositionWitness ==
    /\ lastOp = "togglePlayPause"
    /\ calls = <<"play">>
    /\ rendered.currentlyPlayingId = "a"
    /\ rendered.currentlyPlayingUrl = "u1"
    /\ ~rendered.isPlaying
    /\ state.isPlaying
    /\ state.currentTime = 1
    /\ audio.src = "u1"
    /\ audio.currentTime = 1
    /\ ~audio.paused

\* C24: playAudio changes only currentlyPlayingId, currentlyPlayingUrl and
\* isPlaying; currentTime, duration and volume stay, also when the source
\* changes, so the player of the track just started is active and reports the
\* currentTime and duration recorded before, until a 'timeupdate' or
\* 'durationchange' listener writes those of the element.
PlayKeepsTimes ==
    /\ [][\A track \in Tracks :
            (lastOp' = "player.play" /\ playerPlay(track[1], track[2]))
            => /\ state' = [currentlyPlayingId |-> track[1],
                            currentlyPlayingUrl |-> track[2],
                            isPlaying |-> TRUE,
                            currentTime |-> state.currentTime,
                            duration |-> state.duration,
                            volume |-> state.volume]
               /\ LET player == useAudioPlayer(track[1], ContextValue(state')).value
                  IN /\ player.isActive
                     /\ player.currentTime = state.currentTime
                     /\ player.duration = state.duration]_vars
    /\ [][(state'.currentTime # state.currentTime /\ TimeUpdateEvent)
            => state' = [state EXCEPT !.currentTime = audio.currentTime]]_vars
    /\ [][(state'.duration # state.duration /\ DurationChangeEvent)
            => state' = [state EXCEPT !.duration = audio.duration]]_vars

\* track b has just been started on a new source: the element is back at
\* position 0 with no duration known, the player of b still reports 1 and 1
PlayKeepsTimesWitness ==
    /\ lastOp = "player.play"
    /\ calls = <<"src", "load", "play">>
    /\ state.currentlyPlayingId = "b"
    /\ state.currentlyPlayingUrl = "u2"
    /\ audio.src = "u2"
    /\ audio.currentTime = 0
    /\ audio.duration = 0
    /\ useAudioPlayer("b", ContextValue(state)).value.isActive
    /\ useAudioPlayer("b", ContextValue(state)).value.currentTime = 1
    /\ useAudioPlayer("b", ContextValue(state)).value.duration = 1

\* C25: pause() of a useAudioPlayer pauses the shared playback whatever the
\* player's id: afterwards isPlaying is false, no id is currently playing, and
\* currentlyPlayingId is the one it was; play() and toggle() of a player call
\* nothing, or pause when the rendered context shows the player's own id
\* playing, or make the player's own id and url the current ones.
PlayerPauseIsShared ==
    /\ [][(lastOp' = "player.pause" /\ playerPause)
            => /\ calls' = <<"pause">>
               /\ audio'.paused
               /\ state' = [state EXCEPT !.isPlaying = FALSE]
               /\ state'.currentlyPlayingId = state.currentlyPlayingId
               /\ \A id \in Ids : ~isCurrentlyPlayingOf(state', id)]_vars
    /\ [][\A player \in Players :
            (lastOp' = "player.play" /\ playerPlay(player[1], player[2]))
            => \/ player[2] = "undefined" /\ state' = state /\ audio' = audio
               \/ /\ state'.currentlyPlayingId = player[1]
                  /\ state'.currentlyPlayingUrl = player[2]
                  /\ audio'.src \in {audio.src, player[2]}]_vars
    /\ [][\A player \in Players :
            (lastOp' = "player.toggle" /\ playerToggle(player[1], player[2]))
            => \/ player[2] = "undefined" /\ state' = state /\ audio' = audio
               \/ /\ rendered.currentlyPlayingId = player[1]
                  /\ rendered.isPlaying
                  /\ calls' = <<"pause">>
                  /\ state' = [state EXCEPT !.isPlaying = FALSE]
               \/ /\ state'.currentlyPlayingId = player[1]
                  /\ state'.currentlyPlayingUrl = player[2]
                  /\ audio'.src \in {audio.src, player[2]}]_vars

\* pause() of a player has stopped the playback of track b, which stays the
\* current track, here at position 1
PlayerPauseIsSharedWitness ==
    /\ lastOp = "player.pause"
    /\ calls = <<"pause">>
    /\ events # <<>>
    /\ state.currentlyPlayingId = "b"
    /\ state.currentlyPlayingUrl = "u2"
    /\ state.currentTime = 1
    /\ ~state.isPlaying
    /\ audio.paused
    /\ ~useAudioPlayer("b", ContextValue(state)).value.isPlaying
    /\ useAudioPlayer("b", ContextValue(state)).value.isActive

DeleteTrackAsStated(p, id, q) ==
    /\ q.s.tracks = SelectSeq(p.s.tracks, LAMBDA t : t.id # id)
    /\ p.s.currentTrack.id = id
          => /\ q.a.paused
             /\ q.s.currentTrack = [id |-> -1]
             /\ q.s.isPlaying = FALSE
    /\ p.s.currentTrack.id # id
          => /\ q.s.currentTrack = p.s.currentTrack
             /\ q.s.isPlaying = p.s.isPlaying
             /\ q.s.currentTime = p.s.currentTime
             /\ q.a = p.a

\* C27: in the MusicGenerationPanel, with tracks that have an audio URL,
\* currentTrack is null or a track still in the list; handleDeleteTrack(id)
\* removes every track with that id and keeps the others in order; for the
\* current track it also pauses the element and sets currentTrack null and
\* isPlaying false; for another track currentTrack, isPlaying and currentTime
\* stay.
CurrentTrackListed ==
    /\ [](\/ music.currentTrack = [id |-> -1]
          \/ \E i \in 1..Len(music.tracks) : music.tracks[i] = music.currentTrack)
    /\ [](music.isPlaying => music.currentTrack # [id |-> -1])
    /\ [](\A track \in TrackInputs :
            DeleteTrackAsStated([s |-> music, a |-> musicAudio], track.id,
                                MusicDeleted([s |-> music, a |-> musicAudio],
                                             track.id)))
    /\ [][\A i \in 1..Len(music.tracks) :
            (lastPanelOp' = "clickDelete" /\ MusicClickDelete(i))
            => DeleteTrackAsStated([s |-> music, a |-> musicAudio],
                                   music.tracks[i].id,
                                   [s |-> music', a |-> musicAudio'])]_vars

\* the first of two tracks was deleted while the second went on playing
CurrentTrackListedWitness ==
    /\ lastPanelOp = "clickDelete"
    /\ Len(music.tracks) = 1
    /\ music.tracks[1].id = 1
    /\ music.currentTrack = music.tracks[1]
    /\ music.currentTrack.audioUrl = "u2"
    /\ music.isPlaying
    /\ music.currentTime = 1
    /\ ~musicAudio.paused
    /\ musicAudio.src = "u2"

\* a panel's element that was never given a source and never started
Untouched(a) == a.src = "" /\ a.paused /\ a.currentTime = 0

\* C28: with generation as implemented no item has an audio URL, so after any
\* sequence of generate, clone, play, toggle and delete actions the music
\* panel has no current track and is not playing, the sound-effects panel has
\* no playing sound, the voice panel has no playing voice, and no panel has
\* given its element a source or started it.
NoPanelPlays ==
    /\ music.currentTrack = [id |-> -1]
    /\ music.isPlaying = FALSE
    /\ sfx.playingSoundId = -1
    /\ voice.playingVoiceId = [prefix |-> "null", stamp |-> "null", n |-> 0]
    /\ Untouched(musicAudio)
    /\ Untouched(sfxAudio)
    /\ Untouched(voiceAudio)
    /\ \A i \in 1..Len(music.tracks) : music.tracks[i].audioUrl = "undefined"
    /\ \A i \in 1..Len(sfx.sounds) : sfx.sounds[i].audioUrl = "undefined"
    /\ \A i \in 1..Len(voice.voices) : voice.voices[i].previewUrl = "undefined"

\* the preview button of a voice was clicked with a cloned voice in the list
NoPanelPlaysWitness ==
    /\ activeTab = "voice"
    /\ lastPanelOp = "clickPreview"
    /\ Len(voice.voices) = 3
    /\ voice.voices[3].category = "cloned"
    /\ voice.voices[3].id.stamp = "clock"

====
